---- MODULE Spec2Model ----
(***************************************************************************)
(* News-sentiment paper trader: the signal generator and the trade-replay  *)
(* portfolio ledger (src/news_sentiment_trader/src/signal_generator.py and *)
(* src/news_sentiment_trader/src/portfolio.py).                            *)
(*                                                                         *)
(* Numbers.  Money and prices are integers (whole currency units), so the  *)
(* float arithmetic of the code is modelled exactly where the code is      *)
(* exact: MAX_TRADE_FRACTION = 0.25 is kept as 25 percent and the budget   *)
(* is compared after scaling by 100.  Sentiment scores and thresholds are  *)
(* integers in hundredths (0.02 is 2, 0.15 is 15).                         *)
(*                                                                         *)
(* Timestamps.  A timestamp cell of the trade log is a natural number (a   *)
(* parseable time), NaT (an empty cell) or BadText (text that              *)
(* pd.to_datetime cannot parse).                                           *)
(***************************************************************************)
EXTENDS Integers, Sequences, FiniteSets, TLC

(* ------------------------------ bounds -------------------------------- *)
MaxClock == 6
MaxSignals == 2
MaxInitLen == 2
MaxReplayLen == 3
MaxScore == 30
MaxArticles == 3
MaxCalls == 4

(* ------------------------- program constants -------------------------- *)
INITIAL_CAPITAL == 100000
MAX_TRADE_FRACTION_PCT == 25
BUY_THR == 2
SELL_THR == -2
CONF_MARGIN == 15

NaT == -1
BadText == -2

Symbols == {"X", "Y"}
Sides == {"BUY", "SELL"}
Actions == {"BUY", "SELL", "HOLD"}
Prices == {0, 50, 60}
ProcSet == {1, 2}

Min(a, b) == IF a <= b THEN a ELSE b

(* --------------------------- _load_trades_df --------------------------- *)
\* pd.to_datetime(..., errors="coerce"): what cannot be parsed becomes NaT.
ToDatetime(ts) == IF ts < 0 THEN NaT ELSE ts

CoerceRow(r) == [r EXCEPT !.timestamp = ToDatetime(r.timestamp)]

\* The frame read from the file, its timestamp column coerced.
LoadTradesDf(f) == [i \in 1..Len(f) |-> CoerceRow(f[i])]

(* ---------------------------- sort_values ------------------------------ *)
\* DataFrame.sort_values("timestamp") with the default kind="quicksort":
\* rows with NaT go last in their frame order; the other rows ascend by
\* timestamp and the order of equal timestamps is not specified by the
\* sort (it is not a stable kind).  The sort is a deterministic function,
\* so the unspecified choice is one policy per run: "stable" keeps equal
\* timestamps in frame order, "reversed" puts them in the opposite order.
TiePolicies == {"stable", "reversed"}

RECURSIVE InsertByTimestamp(_, _, _)
InsertByTimestamp(s, r, tie) ==
    IF s = <<>> THEN <<r>>
    ELSE LET last == s[Len(s)]
             front == SubSeq(s, 1, Len(s) - 1)
         IN IF last.timestamp < r.timestamp
               \/ (last.timestamp = r.timestamp /\ tie = "stable")
            THEN Append(s, r)
            ELSE Append(InsertByTimestamp(front, r, tie), last)

RECURSIVE ArgSort(_, _)
ArgSort(s, tie) ==
    IF s = <<>> THEN <<>>
    ELSE InsertByTimestamp(ArgSort(SubSeq(s, 1, Len(s) - 1), tie), s[Len(s)], tie)

IsNaT(r) == r.timestamp = NaT
NotNaT(r) == r.timestamp # NaT

\* Variant: rows without timestamp go first.
SortValues_NaTFirst(df, tie) == SelectSeq(df, IsNaT) \o ArgSort(SelectSeq(df, NotNaT), tie)

\* Variant: the frame is replayed in file order, unsorted.
SortValues_Unsorted(df, tie) == df

SortValues(df, tie) == ArgSort(SelectSeq(df, NotNaT), tie) \o SelectSeq(df, IsNaT)

(* --------------------------- _replay_trades ---------------------------- *)
EmptyPositions == [s \in {} |-> [qty |-> 0, avg_cost |-> 0]]

SetPosition(positions, sym, pos) ==
    [s \in (DOMAIN positions) \cup {sym} |-> IF s = sym THEN pos ELSE positions[s]]

PopPosition(positions, sym) ==
    [s \in (DOMAIN positions) \ {sym} |-> positions[s]]

InitialLedger == [cash |-> INITIAL_CAPITAL, positions |-> EmptyPositions, realized_pnl |-> 0]

\* Variant: a BUY on an open position adds to the lot at the average cost.
ReplayRow_AddsToLot(st, row) ==
    IF row.side = "BUY"
    THEN LET held == IF row.symbol \in DOMAIN st.positions
                     THEN st.positions[row.symbol]
                     ELSE [qty |-> 0, avg_cost |-> 0]
             qty == held.qty + row.qty
         IN [st EXCEPT !.cash = st.cash - row.qty * row.price,
                       !.positions = SetPosition(st.positions, row.symbol,
                            [qty |-> qty,
                             avg_cost |-> (held.qty * held.avg_cost + row.qty * row.price)
                                             \div qty])]
    ELSE IF row.side = "SELL" /\ row.symbol \in DOMAIN st.positions
    THEN [st EXCEPT !.cash = st.cash + row.qty * row.price,
                    !.realized_pnl = st.realized_pnl
                        + (row.price - st.positions[row.symbol].avg_cost) * row.qty,
                    !.positions = PopPosition(st.positions, row.symbol)]
    ELSE st

\* Variant: a SELL sells the quantity held, not the quantity of the trade.
ReplayRow_SellsHeldQty(st, row) ==
    IF row.side = "BUY"
    THEN [st EXCEPT !.cash = st.cash - row.qty * row.price,
                    !.positions = SetPosition(st.positions, row.symbol,
                                              [qty |-> row.qty, avg_cost |-> row.price])]
    ELSE IF row.side = "SELL" /\ row.symbol \in DOMAIN st.positions
    THEN LET held == st.positions[row.symbol]
         IN [st EXCEPT !.cash = st.cash + held.qty * row.price,
                       !.realized_pnl = st.realized_pnl
                           + (row.price - held.avg_cost) * held.qty,
                       !.positions = PopPosition(st.positions, row.symbol)]
    ELSE st

\* One iteration of the replay loop over the sorted rows.
ReplayRow(st, row) ==
    IF row.side = "BUY"
    THEN [st EXCEPT !.cash = st.cash - row.qty * row.price,
                    !.positions = SetPosition(st.positions, row.symbol,
                                              [qty |-> row.qty, avg_cost |-> row.price])]
    ELSE IF row.side = "SELL" /\ row.symbol \in DOMAIN st.positions
    THEN [st EXCEPT !.cash = st.cash + row.qty * row.price,
                    !.realized_pnl = st.realized_pnl
                        + (row.price - st.positions[row.symbol].avg_cost) * row.qty,
                    !.positions = PopPosition(st.positions, row.symbol)]
    ELSE st

RECURSIVE ReplayRows(_, _)
ReplayRows(st, rows) ==
    IF rows = <<>> THEN st
    ELSE ReplayRows(ReplayRow(st, Head(rows)), Tail(rows))

ReplayTrades(trades_df, tie) ==
    IF trades_df = <<>> THEN InitialLedger
    ELSE ReplayRows(InitialLedger, SortValues(LoadTradesDf(trades_df), tie))

RECURSIVE SumCost(_, _)
SumCost(positions, syms) ==
    IF syms = {} THEN 0
    ELSE LET s == CHOOSE x \in syms : TRUE
         IN positions[s].qty * positions[s].avg_cost + SumCost(positions, syms \ {s})

\* approx_equity = cash + sum(qty * avg_cost)
ApproxEquity(st) == st.cash + SumCost(st.positions, DOMAIN st.positions)

(* -------------------------- _compute_snapshot -------------------------- *)
\* Variant: the cost basis is overwritten by the price used.
MarketPosition_RepricesCost(pos, px) ==
    LET last_price == IF px <= 0 THEN pos.avg_cost ELSE px
    IN [qty |-> pos.qty,
        avg_cost |-> last_price,
        last_price |-> last_price,
        market_value |-> pos.qty * last_price,
        unrealized_pnl |-> pos.qty * (last_price - pos.avg_cost)]

\* Variant: the price is used as returned, without fallback.
MarketPosition_NoFallback(pos, px) ==
    [qty |-> pos.qty,
     avg_cost |-> pos.avg_cost,
     last_price |-> px,
     market_value |-> pos.qty * px,
     unrealized_pnl |-> pos.qty * (px - pos.avg_cost)]

\* One enriched position record; px is the price the price source returned.
MarketPosition(pos, px) ==
    LET last_price == IF px <= 0 THEN pos.avg_cost ELSE px
    IN [qty |-> pos.qty,
        avg_cost |-> pos.avg_cost,
        last_price |-> last_price,
        market_value |-> pos.qty * last_price,
        unrealized_pnl |-> pos.qty * (last_price - pos.avg_cost)]

RECURSIVE SumField(_, _, _)
SumField(f, syms, field) ==
    IF syms = {} THEN 0
    ELSE LET s == CHOOSE x \in syms : TRUE
         IN f[s][field] + SumField(f, syms \ {s}, field)

\* prices maps every open symbol to the price fetched for it.
ComputeSnapshot(trades_df, prices, tie) ==
    LET led == ReplayTrades(trades_df, tie)
        market == [s \in DOMAIN led.positions |-> MarketPosition(led.positions[s], prices[s])]
    IN [cash |-> led.cash,
        equity |-> led.cash + SumField(market, DOMAIN market, "market_value"),
        realized_pnl |-> led.realized_pnl,
        unrealized_pnl |-> SumField(market, DOMAIN market, "unrealized_pnl"),
        positions |-> market]

NoSnapshot ==
    [cash |-> 0, equity |-> 0, realized_pnl |-> 0, unrealized_pnl |-> 0,
     positions |-> [s \in {} |-> MarketPosition([qty |-> 0, avg_cost |-> 0], 0)]]

(* ----------------- apply_signals_and_update_portfolio ------------------ *)
Trade(now, sym, side, qty, price) ==
    [timestamp |-> now, symbol |-> sym, side |-> side,
     qty |-> qty, price |-> price, value |-> qty * price]

\* Variant: a BUY does not look at the open positions.
IsBuyCase_IgnoresOpen(positions, sym, action) == action = "BUY"

\* if action == "BUY" and sym not in positions
IsBuyCase(positions, sym, action) == action = "BUY" /\ sym \notin DOMAIN positions

\* elif action == "SELL" and sym in positions
IsSellCase(positions, sym, action) == action = "SELL" /\ sym \in DOMAIN positions

\* Whether the loop body fetches a price for this signal.
FetchesPrice(positions, sym, action) ==
    IsBuyCase(positions, sym, action) \/ IsSellCase(positions, sym, action)

\* Variant: the budget is not capped by the cash at hand.
BuyQty_NoCashCap(approx_equity, cash, price) ==
    (MAX_TRADE_FRACTION_PCT * approx_equity) \div (100 * price)

\* qty = int(min(MAX_TRADE_FRACTION * approx_equity, cash) // price), price > 0
BuyQty(approx_equity, cash, price) ==
    Min(MAX_TRADE_FRACTION_PCT * approx_equity, 100 * cash) \div (100 * price)

\* The BUY branch (sym has no open position).
ApplyBuy(a, sym, price) ==
    LET qty == BuyQty(a.approx_equity, a.cash, price)
    IN IF price <= 0 THEN a
       ELSE IF qty <= 0 THEN a
       ELSE [a EXCEPT !.cash = a.cash - qty * price,
                      !.positions = SetPosition(a.positions, sym,
                                                [qty |-> qty, avg_cost |-> price]),
                      !.new_trades = Append(a.new_trades,
                                            Trade(a.now_iso, sym, "BUY", qty, price))]

\* Variant: without a usable price the position is sold at its cost.
ApplySell_FallsBackToCost(a, sym, price) ==
    LET qty == a.positions[sym].qty
        px == IF price <= 0 THEN a.positions[sym].avg_cost ELSE price
    IN [a EXCEPT !.cash = a.cash + qty * px,
                 !.realized_pnl = a.realized_pnl + (px - a.positions[sym].avg_cost) * qty,
                 !.new_trades = Append(a.new_trades, Trade(a.now_iso, sym, "SELL", qty, px)),
                 !.positions = PopPosition(a.positions, sym)]

\* Variant: the position is sold but not closed.
ApplySell_KeepsPosition(a, sym, price) ==
    LET qty == a.positions[sym].qty
    IN IF price <= 0 THEN a
       ELSE [a EXCEPT !.cash = a.cash + qty * price,
                      !.realized_pnl = a.realized_pnl
                          + (price - a.positions[sym].avg_cost) * qty,
                      !.new_trades = Append(a.new_trades,
                                            Trade(a.now_iso, sym, "SELL", qty, price))]

\* The SELL branch (sym has an open position).
ApplySell(a, sym, price) ==
    LET qty == a.positions[sym].qty
    IN IF price <= 0 THEN a
       ELSE [a EXCEPT !.cash = a.cash + qty * price,
                      !.realized_pnl = a.realized_pnl
                          + (price - a.positions[sym].avg_cost) * qty,
                      !.new_trades = Append(a.new_trades,
                                            Trade(a.now_iso, sym, "SELL", qty, price)),
                      !.positions = PopPosition(a.positions, sym)]

\* One iteration of "for sig in all_signals".
ProcessSignal(a, sym, action, price) ==
    LET b == [a EXCEPT !.sym = sym, !.action = action, !.n = a.n + 1,
                       !.price = IF FetchesPrice(a.positions, sym, action)
                                 THEN price ELSE a.price]
    IN IF IsBuyCase(a.positions, sym, action) THEN ApplyBuy(b, sym, price)
       ELSE IF IsSellCase(a.positions, sym, action) THEN ApplySell(b, sym, price)
       ELSE b

\* The frame written by to_csv: the loaded frame with the new rows after it.
SavedFrame(a) == a.trades_df \o a.new_trades

HistRow_CashAsEquity(now, snapshot) ==
    [timestamp |-> now, equity |-> snapshot.cash, cash |-> snapshot.cash,
     realized_pnl |-> snapshot.realized_pnl, unrealized_pnl |-> snapshot.unrealized_pnl]

HistRow(now, snapshot) ==
    [timestamp |-> now, equity |-> snapshot.equity, cash |-> snapshot.cash,
     realized_pnl |-> snapshot.realized_pnl, unrealized_pnl |-> snapshot.unrealized_pnl]

\* Lines 146-218 as one function of the log: the frame on disk after a whole
\* call that handles sigs (a sequence of [symbol, signal, price], price being
\* what the price source returns for that signal) at time now.
RECURSIVE ProcessSignals(_, _)
ProcessSignals(a, sigs) ==
    IF sigs = <<>> THEN a
    ELSE ProcessSignals(ProcessSignal(a, Head(sigs).symbol, Head(sigs).signal, Head(sigs).price),
                        Tail(sigs))

(* ------------------------ generate_trading_signal ---------------------- *)
\* buy_thr / sell_thr = None: the argument was not given.
NoThreshold == 999

\* Variant: the BUY boundary is exclusive.
GenerateTradingSignal_StrictBuy(summary, buy_thr_arg, sell_thr_arg) ==
    LET buy_thr == IF buy_thr_arg = NoThreshold THEN BUY_THR ELSE buy_thr_arg
        sell_thr == IF sell_thr_arg = NoThreshold THEN SELL_THR ELSE sell_thr_arg
        final_score == summary.final_score
    IN IF summary.article_count = 0
       THEN [signal |-> "HOLD", confidence |-> "low"]
       ELSE IF final_score > buy_thr
       THEN [signal |-> "BUY",
             confidence |-> IF final_score >= buy_thr + CONF_MARGIN THEN "high" ELSE "medium"]
       ELSE IF final_score <= sell_thr
       THEN [signal |-> "SELL",
             confidence |-> IF final_score <= sell_thr - CONF_MARGIN THEN "high" ELSE "medium"]
       ELSE [signal |-> "HOLD", confidence |-> "medium"]

\* Variant: the neutral band keeps the initial confidence "low".
GenerateTradingSignal_HoldLow(summary, buy_thr_arg, sell_thr_arg) ==
    LET buy_thr == IF buy_thr_arg = NoThreshold THEN BUY_THR ELSE buy_thr_arg
        sell_thr == IF sell_thr_arg = NoThreshold THEN SELL_THR ELSE sell_thr_arg
        final_score == summary.final_score
    IN IF summary.article_count = 0
       THEN [signal |-> "HOLD", confidence |-> "low"]
       ELSE IF final_score >= buy_thr
       THEN [signal |-> "BUY",
             confidence |-> IF final_score >= buy_thr + CONF_MARGIN THEN "high" ELSE "medium"]
       ELSE IF final_score <= sell_thr
       THEN [signal |-> "SELL",
             confidence |-> IF final_score <= sell_thr - CONF_MARGIN THEN "high" ELSE "medium"]
       ELSE [signal |-> "HOLD", confidence |-> "low"]

GenerateTradingSignal(summary, buy_thr_arg, sell_thr_arg) ==
    LET buy_thr == IF buy_thr_arg = NoThreshold THEN BUY_THR ELSE buy_thr_arg
        sell_thr == IF sell_thr_arg = NoThreshold THEN SELL_THR ELSE sell_thr_arg
        final_score == summary.final_score
    IN IF summary.article_count = 0
       THEN [signal |-> "HOLD", confidence |-> "low"]
       ELSE IF final_score >= buy_thr
       THEN [signal |-> "BUY",
             confidence |-> IF final_score >= buy_thr + CONF_MARGIN THEN "high" ELSE "medium"]
       ELSE IF final_score <= sell_thr
       THEN [signal |-> "SELL",
             confidence |-> IF final_score <= sell_thr - CONF_MARGIN THEN "high" ELSE "medium"]
       ELSE [signal |-> "HOLD", confidence |-> "medium"]

NoSignal == [signal |-> "none", confidence |-> "none"]

(* ---------------------------- Python floats ---------------------------- *)
\* A Python float is a binary floating-point number: every sum and quotient
\* is rounded to the nearest number with a fixed count of significant bits,
\* ties to the even mantissa.  The format here has the same rule with
\* Precision significant bits (binary64 has 53) and a smallest step of one
\* unit, the unit being one hundredth of a score point.
Precision == 4

Abs(x) == IF x < 0 THEN 0 - x ELSE x

\* The spacing of the representable numbers around a magnitude m >= 0.
RECURSIVE UlpFrom(_, _)
UlpFrom(m, u) == IF m < u * (2 ^ Precision) THEN u ELSE UlpFrom(m, 2 * u)

Ulp(m) == UlpFrom(m, 1)

\* num / den (den > 0) rounded to the nearest multiple of step, ties to even.
RoundQuotient(num, den, step) ==
    LET d == den * step
        q == num \div d
        r == num - q * d
    IN IF 2 * r < d THEN q * step
       ELSE IF 2 * r > d THEN (q + 1) * step
       ELSE IF q % 2 = 0 THEN q * step ELSE (q + 1) * step

FloatAdd(a, b) == RoundQuotient(a + b, 1, Ulp(Abs(a + b)))

\* Variant: the divisor is one more than the count.
FloatDiv_OneMore(a, n) == RoundQuotient(a, n + 1, Ulp(Abs(a) \div (n + 1)))

FloatDiv(a, n) == RoundQuotient(a, n, Ulp(Abs(a) \div n))

(* ------------------------- sentiment_aggregator ------------------------ *)
\* Variant: labels are compared as written.
Lower_AsWritten(label) == label

\* str.lower() on the labels the model uses
Lower(label) ==
    CASE label = "POSITIVE" -> "positive"
      [] label = "Negative" -> "negative"
      [] OTHER -> label

\* Lines 33-55: the running sums and counts after the loop over the records.
RECURSIVE Accumulate(_, _)
Accumulate(acc, article_results) ==
    IF article_results = <<>> THEN acc
    ELSE LET res == Head(article_results)
             label == Lower(res.label)
         IN Accumulate(
              [sum_score |-> FloatAdd(acc.sum_score, res.score),
               pos_count |-> acc.pos_count + (IF label = "positive" THEN 1 ELSE 0),
               neg_count |-> acc.neg_count
                                + (IF label # "positive" /\ label = "negative" THEN 1 ELSE 0),
               neu_count |-> acc.neu_count
                                + (IF label # "positive" /\ label # "negative" THEN 1 ELSE 0)],
              Tail(article_results))

\* What the function returns for an empty list (None).
NoSummary == [article_count |-> 0, none |-> TRUE]

\* Before the function has been called.
NotAggregated == [article_count |-> 0 - 1, none |-> TRUE]

\* A ratio count / n, kept as the exact fraction.
Ratio(count, n) == [num |-> count, den |-> n]

\* Variant: the view uses the comparisons of the signal rule.
AggregateArticleSentiments_LooseView(article_results) ==
    IF article_results = <<>> THEN NoSummary
    ELSE LET n == Len(article_results)
             acc == Accumulate([sum_score |-> 0, pos_count |-> 0,
                                neg_count |-> 0, neu_count |-> 0], article_results)
             final_score == FloatDiv(acc.sum_score, n)
         IN [final_score |-> final_score,
             article_count |-> n,
             bullish_ratio |-> Ratio(acc.pos_count, n),
             bearish_ratio |-> Ratio(acc.neg_count, n),
             neutral_ratio |-> Ratio(acc.neu_count, n),
             sentiment_view |-> IF final_score >= BUY_THR THEN "bullish"
                                ELSE IF final_score <= SELL_THR THEN "bearish"
                                ELSE "mixed/neutral",
             none |-> FALSE]

AggregateArticleSentiments(article_results) ==
    IF article_results = <<>> THEN NoSummary
    ELSE LET n == Len(article_results)
             acc == Accumulate([sum_score |-> 0, pos_count |-> 0,
                                neg_count |-> 0, neu_count |-> 0], article_results)
             final_score == FloatDiv(acc.sum_score, n)
         IN [final_score |-> final_score,
             article_count |-> n,
             bullish_ratio |-> Ratio(acc.pos_count, n),
             bearish_ratio |-> Ratio(acc.neg_count, n),
             neutral_ratio |-> Ratio(acc.neu_count, n),
             sentiment_view |-> IF final_score > BUY_THR THEN "bullish"
                                ELSE IF final_score < SELL_THR THEN "bearish"
                                ELSE "mixed/neutral",
             none |-> FALSE]

(* ------------------------ analyze_symbol_news -------------------------- *)
\* FinBertSentimentAnalyzer.predict: blank texts are skipped, the others are
\* classified (score and label are what the classifier gives for the text).
Predict(arts) == SelectSeq(arts, LAMBDA a : ~a.blank)

\* The two literal fallback results (no articles; no summary).
HoldLow(article_count) ==
    [signal |-> "HOLD", confidence |-> "low", final_score |-> 0,
     article_count |-> article_count]

\* Variant: a missing summary is read as a summary with score 0.
AnalyzeSymbol_ZeroSentiment(arts, buy_thr_arg, sell_thr_arg) ==
    IF arts = <<>> THEN HoldLow(0)
    ELSE LET enriched_results == Predict(arts)
             summary_ == AggregateArticleSentiments(enriched_results)
             read == IF summary_.none
                     THEN [final_score |-> 0, article_count |-> Len(arts)]
                     ELSE summary_
             sig == GenerateTradingSignal(read, buy_thr_arg, sell_thr_arg)
         IN [signal |-> sig.signal, confidence |-> sig.confidence,
             final_score |-> read.final_score,
             article_count |-> read.article_count]

\* main.analyze_symbol_news / app_streamlit.analyze_symbol once the news
\* collaborator has returned arts.
AnalyzeSymbol(arts, buy_thr_arg, sell_thr_arg) ==
    IF arts = <<>> THEN HoldLow(0)
    ELSE LET enriched_results == Predict(arts)
             summary_ == AggregateArticleSentiments(enriched_results)
         IN IF summary_.none THEN HoldLow(Len(arts))
            ELSE LET sig == GenerateTradingSignal(summary_, buy_thr_arg, sell_thr_arg)
                 IN [signal |-> sig.signal, confidence |-> sig.confidence,
                     final_score |-> summary_.final_score,
                     article_count |-> summary_.article_count]

NoAnalysis == [signal |-> "none", confidence |-> "none", final_score |-> 0, article_count |-> 0]

(* ------------------------------- state --------------------------------- *)
VARIABLES
    file,        \* rows of portfolio_trades.csv
    history,     \* rows of portfolio_history.csv
    clock,       \* datetime.utcnow()
    tie,         \* the tie order of sort_values in this run
    ap,          \* ap[p]: the locals of invocation p of apply_signals_and_update_portfolio
    snap,        \* the last two results of _compute_snapshot since the last run began
    trades_in,   \* a trade list handed to _replay_trades
    replayed,    \* <<replay of trades_in, replay of a permutation of it>>, once computed
    summary,     \* the summary handed to generate_trading_signal
    buy_thr,     \* its buy_thr argument
    sell_thr,    \* its sell_thr argument
    signal_info, \* what generate_trading_signal returned
    quoted,      \* what the price source returned in the latest standalone snapshot
    articles,    \* the articles of one symbol, as the news collaborator returned them
    agg_out,     \* what aggregate_article_sentiments returned for them
    analysis,    \* what analyze_symbol_news returned for them
    news_key,    \* whether NEWSAPI_KEY is set
    run          \* the orchestrator's loop over the watchlist

ledgerVars == <<file, history, clock, tie, ap, snap>>
replayVars == <<trades_in, replayed>>
signalVars == <<summary, buy_thr, sell_thr, signal_info>>
newsVars == <<articles, agg_out, analysis>>
runVars == <<news_key, run>>
vars == <<file, history, clock, tie, ap, snap,
          trades_in, replayed, summary, buy_thr, sell_thr, signal_info,
          quoted, articles, agg_out, analysis, news_key, run>>

IdleRun == [pc |-> "idle", i |-> 1, all_signals |-> <<>>]

IdleApply ==
    [pc |-> "idle", trades_df |-> <<>>, cash |-> INITIAL_CAPITAL,
     positions |-> EmptyPositions, realized_pnl |-> 0, approx_equity |-> INITIAL_CAPITAL,
     new_trades |-> <<>>, now_iso |-> 0, sym |-> "X", action |-> "HOLD", price |-> 0,
     n |-> 0, snapshot |-> NoSnapshot]

\* Lines 146-152: the locals after load, replay, approx_equity and now_iso.
BeginApply(f, now, tie_) ==
    LET df == LoadTradesDf(f)
        led == ReplayTrades(df, tie_)
    IN [IdleApply EXCEPT !.pc = "loop",
                         !.trades_df = df,
                         !.cash = led.cash,
                         !.positions = led.positions,
                         !.realized_pnl = led.realized_pnl,
                         !.approx_equity = ApproxEquity(led),
                         !.now_iso = now]

\* Lines 214-218: what the call leaves on disk.
SaveTrades(a, f) == IF a.new_trades # <<>> THEN SavedFrame(a) ELSE f

\* The trade log after a whole call on log f.
RunCall(f, sigs, now, tie_) == SaveTrades(ProcessSignals(BeginApply(f, now, tie_), sigs), f)

Begin(p) ==
    /\ ap[p].pc = "idle"
    /\ clock < MaxClock
    /\ ap' = [ap EXCEPT ![p] = BeginApply(file, clock, tie)]
    /\ snap' = <<>>
    /\ UNCHANGED <<file, history, clock, tie, replayVars, signalVars, quoted, newsVars, runVars>>

\* Lines 154-212: the next signal of all_signals.  Handling a signal takes
\* time (a price is fetched over the network), so the clock advances.
StepAt(p, quotes) ==
    /\ ap[p].pc = "loop"
    /\ ap[p].n < MaxSignals
    /\ clock < MaxClock
    /\ \E sym \in Symbols, action \in Actions :
         \E price \in (IF FetchesPrice(ap[p].positions, sym, action) THEN quotes ELSE {0}) :
            ap' = [ap EXCEPT ![p] = ProcessSignal(ap[p], sym, action, price)]
    /\ clock' = clock + 1
    /\ UNCHANGED <<file, history, tie, snap, replayVars, signalVars, quoted, newsVars, runVars>>

Step(p) == StepAt(p, Prices)

\* Lines 214-242: save the new trades, compute the snapshot, log the history row.
FinishAt(p, quotes) ==
    /\ ap[p].pc = "loop"
    /\ LET saved == IF ap[p].new_trades # <<>> THEN SavedFrame(ap[p]) ELSE ap[p].trades_df
           open == DOMAIN ReplayTrades(saved, tie).positions
       IN /\ file' = SaveTrades(ap[p], file)
          /\ \E prices \in [open -> quotes] :
               LET snapshot == ComputeSnapshot(saved, prices, tie)
               IN /\ ap' = [ap EXCEPT ![p] = [IdleApply EXCEPT !.snapshot = snapshot]]
                  /\ history' = Append(history, HistRow(clock, snapshot))
    /\ clock' = clock + 1
    /\ UNCHANGED <<tie, snap, replayVars, signalVars, quoted, newsVars, runVars>>

Finish(p) == FinishAt(p, Prices)

LastTwo(s) == IF Len(s) <= 2 THEN s ELSE SubSeq(s, Len(s) - 1, Len(s))

\* _compute_snapshot(_load_trades_df()) between two runs.
Snapshot ==
    /\ \A p \in ProcSet : ap[p].pc = "idle"
    /\ LET df == LoadTradesDf(file)
           open == DOMAIN ReplayTrades(df, tie).positions
       IN \E prices \in [open -> Prices] :
            /\ snap' = LastTwo(Append(snap, ComputeSnapshot(df, prices, tie)))
            /\ quoted' = prices
    /\ UNCHANGED <<file, history, clock, tie, ap, replayVars, signalVars, newsVars, runVars>>

(* --------------------------- specifications ---------------------------- *)
InitPure ==
    /\ trades_in = <<>>
    /\ replayed = <<>>
    /\ summary = [final_score |-> 0, article_count |-> 0]
    /\ buy_thr = NoThreshold
    /\ sell_thr = NoThreshold
    /\ signal_info = NoSignal

\* Nothing fetched, analysed or run yet.
InitNews ==
    /\ quoted = EmptyPositions
    /\ articles = <<>>
    /\ agg_out = NotAggregated
    /\ analysis = NoAnalysis
    /\ news_key = TRUE
    /\ run = IdleRun

InitLedger ==
    /\ history = <<>>
    /\ clock = 1
    /\ ap = [p \in ProcSet |-> IdleApply]
    /\ snap = <<>>
    /\ InitNews

\* A fresh installation: no trade log yet; one invocation at a time.
Init == InitLedger /\ InitPure /\ tie \in TiePolicies /\ file = <<>>

Next == Begin(1) \/ Step(1) \/ Finish(1)

Spec == Init /\ [][Next]_vars

\* An installation whose trade log already holds rows, written by earlier
\* runs or by hand (the log is a human-editable CSV file): any rows, in any
\* order, also rows whose timestamp cell cannot be parsed.
InitTimestamps == {0, BadText}
InitQtys == {500, 1999}
InitPrices == {50}
InitSymbols == {"X"}

InitRows ==
    {Trade(ts, sym, side, qty, price) :
        ts \in InitTimestamps, sym \in InitSymbols, side \in Sides,
        qty \in InitQtys, price \in InitPrices}

SeqsUpTo(S, n) == UNION {[1..k -> S] : k \in 0..n}

InitLoaded ==
    /\ InitLedger /\ InitPure /\ tie \in TiePolicies
    /\ file \in SeqsUpTo(InitRows, MaxInitLen)

\* The run under study is the first one to write the history file.
FirstBegin(p) == history = <<>> /\ Begin(p)

NextLoaded == FirstBegin(1) \/ Step(1) \/ Finish(1)

SpecLoaded == InitLoaded /\ [][NextLoaded]_vars

\* Snapshots of an existing trade log.
SnapRows ==
    {Trade(ts, sym, side, qty, price) :
        ts \in InitTimestamps, sym \in Symbols, side \in Sides,
        qty \in InitQtys, price \in InitPrices}

InitSnap ==
    /\ InitLedger /\ InitPure /\ tie \in TiePolicies
    /\ file \in SeqsUpTo(SnapRows, MaxInitLen)

NextSnap == Snapshot

SpecSnap == InitSnap /\ [][NextSnap]_vars

\* Two invocations of apply on the same trade log with no lock between them
\* (two dashboard sessions): their steps interleave freely.
ConcBegin(p) ==
    /\ Len(history) + Cardinality({q \in ProcSet : ap[q].pc # "idle"}) < 2
    /\ Begin(p)

\* The price source answers every fetch of these runs with the same quote.
ConcPrices == {50}
ConcStep(p) == StepAt(p, ConcPrices)
ConcFinish(p) == FinishAt(p, ConcPrices)

NextConc == \E p \in ProcSet : ConcBegin(p) \/ ConcStep(p) \/ ConcFinish(p)

InitConc == InitLedger /\ InitPure /\ tie = "stable" /\ file = <<>>

SpecConc == InitConc /\ [][NextConc]_vars

\* _replay_trades on a trade list and on a permutation of it.
ReplayTimestamps == {1, 2, BadText}
ReplayLots == {<<1, 50>>, <<2, 60>>}

ReplayRowsIn ==
    {Trade(ts, "X", side, lot[1], lot[2]) :
        ts \in ReplayTimestamps, side \in Sides, lot \in ReplayLots}

IndexPermutations(n) == {f \in [1..n -> 1..n] : \A i, j \in 1..n : f[i] = f[j] => i = j}

Permuted(s, f) == [i \in 1..Len(s) |-> s[f[i]]]

InitReplay ==
    /\ InitLedger /\ tie \in TiePolicies /\ file = <<>>
    /\ trades_in \in SeqsUpTo(ReplayRowsIn, MaxReplayLen)
    /\ replayed = <<>>
    /\ summary = [final_score |-> 0, article_count |-> 0]
    /\ buy_thr = NoThreshold
    /\ sell_thr = NoThreshold
    /\ signal_info = NoSignal

Replay ==
    /\ replayed = <<>>
    /\ \E f \in IndexPermutations(Len(trades_in)) :
         replayed' = <<ReplayTrades(trades_in, tie), ReplayTrades(Permuted(trades_in, f), tie),
                       Permuted(trades_in, f)>>
    /\ UNCHANGED <<ledgerVars, trades_in, signalVars, quoted, newsVars, runVars>>

NextReplay == Replay

SpecReplay == InitReplay /\ [][NextReplay]_vars

\* generate_trading_signal on a summary and thresholds.
ArticleCounts == {0, 1, 5}
BuyThresholds == {NoThreshold, 0, 10}
SellThresholds == {NoThreshold, -10, 5}

InitSignal ==
    /\ InitLedger /\ tie = "stable" /\ file = <<>>
    /\ trades_in = <<>>
    /\ replayed = <<>>
    /\ summary \in [final_score : (0 - MaxScore)..MaxScore, article_count : ArticleCounts]
    /\ buy_thr \in BuyThresholds
    /\ sell_thr \in SellThresholds
    /\ signal_info = NoSignal

Generate ==
    /\ signal_info = NoSignal
    /\ signal_info' = GenerateTradingSignal(summary, buy_thr, sell_thr)
    /\ UNCHANGED <<ledgerVars, replayVars, summary, buy_thr, sell_thr, quoted, newsVars, runVars>>

NextSignal == Generate

SpecSignal == InitSignal /\ [][NextSignal]_vars

\* aggregate_article_sentiments and analyze_symbol_news on the articles of
\* one symbol.  A record's label is what the classifier reported ("" when the
\* record has no label); blank marks an article with neither title nor
\* description.
ArticleScores == {0 - 14, 2, 14}
ArticleLabels == {"positive", "Negative", "neutral", ""}
ArticleRecords == [blank : BOOLEAN, score : ArticleScores, label : ArticleLabels]

\* The thresholds the command-line run (none) and the dashboard (sliders) pass.
AnalyzeThresholds == {<<NoThreshold, NoThreshold>>, <<10, 0 - 10>>}

InitAgg ==
    /\ history = <<>> /\ clock = 1 /\ ap = [p \in ProcSet |-> IdleApply] /\ snap = <<>>
    /\ InitPure /\ tie = "stable" /\ file = <<>>
    /\ quoted = EmptyPositions
    /\ articles \in SeqsUpTo(ArticleRecords, MaxArticles)
    /\ agg_out = NotAggregated
    /\ analysis = NoAnalysis
    /\ news_key = TRUE
    /\ run = IdleRun

Aggregate ==
    /\ agg_out = NotAggregated
    /\ agg_out' = AggregateArticleSentiments(articles)
    /\ UNCHANGED <<ledgerVars, replayVars, signalVars, quoted, articles, analysis, runVars>>

Analyze ==
    /\ analysis = NoAnalysis
    /\ \E thr \in AnalyzeThresholds : analysis' = AnalyzeSymbol(articles, thr[1], thr[2])
    /\ UNCHANGED <<ledgerVars, replayVars, signalVars, quoted, articles, agg_out, runVars>>

NextAgg == Aggregate \/ Analyze

SpecAgg == InitAgg /\ [][NextAgg]_vars

\* The orchestrator (main.main, and the dashboard's "Run Analysis"): one
\* analysis per watchlist symbol, in order.  NEWS_SOURCE_MODE is "api".
WatchList == <<"X", "Y">>

\* What the news collaborator can return for a symbol; the empty list is also
\* its answer to a timeout, a network error or a non-200 reply.
NewsFeeds ==
    {<<>>,
     <<[blank |-> TRUE, score |-> 0, label |-> ""]>>,
     <<[blank |-> FALSE, score |-> 14, label |-> "positive"]>>,
     <<[blank |-> FALSE, score |-> 2, label |-> "neutral"]>>,
     <<[blank |-> FALSE, score |-> 0 - 14, label |-> "negative"],
       [blank |-> FALSE, score |-> 0 - 14, label |-> "negative"]>>,
     <<[blank |-> FALSE, score |-> 0 - 14, label |-> "Negative"],
       [blank |-> FALSE, score |-> 2, label |-> "neutral"]>>}

InitRun ==
    /\ history = <<>> /\ clock = 1 /\ ap = [p \in ProcSet |-> IdleApply] /\ snap = <<>>
    /\ InitPure /\ tie = "stable" /\ file = <<>>
    /\ quoted = EmptyPositions
    /\ articles = <<>>
    /\ agg_out = NotAggregated
    /\ analysis = NoAnalysis
    /\ news_key \in BOOLEAN
    /\ run = IdleRun

\* The run starts with the thresholds of its caller.
StartRun ==
    /\ run.pc = "idle"
    /\ \E thr \in AnalyzeThresholds : buy_thr' = thr[1] /\ sell_thr' = thr[2]
    /\ run' = [pc |-> "loop", i |-> 1, all_signals |-> <<>>]
    /\ UNCHANGED <<ledgerVars, replayVars, summary, signal_info, quoted, newsVars, news_key>>

\* One iteration: get_news_for_symbol, then the analysis.  Without
\* NEWSAPI_KEY fetch_news_from_newsapi raises RuntimeError; nothing between
\* it and the top of the program catches it.
AnalyzeNext ==
    /\ run.pc = "loop"
    /\ run.i <= Len(WatchList)
    /\ IF ~news_key
       THEN run' = [run EXCEPT !.pc = "raised"]
       ELSE \E feed \in NewsFeeds :
              run' = [run EXCEPT
                        !.all_signals =
                            Append(@, [symbol |-> WatchList[run.i],
                                       info |-> AnalyzeSymbol(feed, buy_thr, sell_thr)]),
                        !.i = @ + 1]
    /\ UNCHANGED <<ledgerVars, replayVars, signalVars, quoted, newsVars, news_key>>

\* The loop is over: the summary is printed and the run ends.
EndRun ==
    /\ run.pc = "loop"
    /\ run.i > Len(WatchList)
    /\ run' = [run EXCEPT !.pc = "done"]
    /\ UNCHANGED <<ledgerVars, replayVars, signalVars, quoted, newsVars, news_key>>

NextRun == StartRun \/ AnalyzeNext \/ EndRun

SpecRun == InitRun /\ [][NextRun]_vars

\* The summary of one symbol's articles handed to the signal generator with
\* the caller's thresholds (main.py passes none, the dashboard its sliders).
\* The scores include the default thresholds and their neighbours.
ViewScores == {0 - 14, 0 - 3, 0 - 2, 2, 3, 14}
ViewRecords == [blank : {FALSE}, score : ViewScores, label : {"positive", "neutral"}]

InitView ==
    /\ history = <<>> /\ clock = 1 /\ ap = [p \in ProcSet |-> IdleApply] /\ snap = <<>>
    /\ tie = "stable" /\ file = <<>>
    /\ trades_in = <<>>
    /\ replayed = <<>>
    /\ summary = [final_score |-> 0, article_count |-> 0]
    /\ buy_thr \in BuyThresholds
    /\ sell_thr \in SellThresholds
    /\ signal_info = NoSignal
    /\ quoted = EmptyPositions
    /\ articles \in SeqsUpTo(ViewRecords, MaxArticles)
    /\ agg_out = NotAggregated
    /\ analysis = NoAnalysis
    /\ news_key = TRUE
    /\ run = IdleRun

\* generate_trading_signal on the summary the aggregator returned.
SignalFromSummary ==
    /\ agg_out # NotAggregated
    /\ ~agg_out.none
    /\ signal_info = NoSignal
    /\ signal_info' = GenerateTradingSignal(agg_out, buy_thr, sell_thr)
    /\ UNCHANGED <<ledgerVars, replayVars, summary, buy_thr, sell_thr, quoted, newsVars, runVars>>

NextView == Aggregate \/ SignalFromSummary

SpecView == InitView /\ [][NextView]_vars

\* Whole apply calls, one after the other, on a watchlist of three symbols.
\* Each call gets one of a few signal lists: a BUY of Z, or, for X and then
\* for Y, a BUY followed by a SELL or a SELL followed by a BUY, at the prices
\* the price source returns.  The snapshot of every call is quoted at 50.
Sig(sym, action, price) == [symbol |-> sym, signal |-> action, price |-> price]

OpenThenClose(bp, sp) ==
    <<Sig("X", "BUY", bp), Sig("X", "SELL", sp), Sig("Y", "BUY", bp), Sig("Y", "SELL", sp)>>

CloseThenOpen(sp, bp) ==
    <<Sig("X", "SELL", sp), Sig("X", "BUY", bp), Sig("Y", "SELL", sp), Sig("Y", "BUY", bp)>>

CallPrices == {50, 60}

CallLists ==
    {<<Sig("Z", "BUY", 50)>>}
        \cup {OpenThenClose(bp, sp) : bp \in CallPrices, sp \in CallPrices}
        \cup {CloseThenOpen(sp, bp) : sp \in CallPrices, bp \in CallPrices}

CallQuotes == {50}

InitCalls == InitLedger /\ InitPure /\ tie \in TiePolicies /\ file = <<>>

\* apply_signals_and_update_portfolio(sigs) from entry to return.
Call ==
    /\ ap[1].pc = "idle"
    /\ Len(history) < MaxCalls
    /\ \E sigs \in CallLists :
         LET a == ProcessSignals(BeginApply(file, clock, tie), sigs)
             saved == IF a.new_trades # <<>> THEN SavedFrame(a) ELSE a.trades_df
             open == DOMAIN ReplayTrades(saved, tie).positions
         IN /\ file' = SaveTrades(a, file)
            /\ \E prices \in [open -> CallQuotes] :
                 LET snapshot == ComputeSnapshot(saved, prices, tie)
                 IN /\ ap' = [ap EXCEPT ![1] = [IdleApply EXCEPT !.snapshot = snapshot]]
                    /\ history' = Append(history, HistRow(clock, snapshot))
    /\ clock' = clock + 1
    /\ UNCHANGED <<tie, snap, replayVars, signalVars, quoted, newsVars, runVars>>

NextCalls == Call

SpecCalls == InitCalls /\ [][NextCalls]_vars

(* ======================================================================= *)
(* Claims                                                                  *)
(* ======================================================================= *)

\* The step from a to b handles one signal of the loop of invocation 1.
LoopStep(a, b) == a.pc = "loop" /\ b.pc = "loop" /\ b.n = a.n + 1

\* 100 * min(MAX_TRADE_FRACTION * approx_equity, cash), approx_equity being
\* that of the log the invocation loaded.
Budget100(a) ==
    Min(MAX_TRADE_FRACTION_PCT * ApproxEquity(ReplayTrades(a.trades_df, tie)), 100 * a.cash)

LastTrade(b) == b.new_trades[Len(b.new_trades)]

OneTradeAdded(a, b) ==
    /\ Len(b.new_trades) = Len(a.new_trades) + 1
    /\ SubSeq(b.new_trades, 1, Len(a.new_trades)) = a.new_trades

\* C1: a BUY signal for a symbol with no open position and a fetched price
\* p > 0 buys floor(min(MAX_TRADE_FRACTION * approx_equity, cash) / p) shares,
\* approx_equity being computed once from the replayed log and cash being the
\* cash left by the earlier signals of the call: when that quantity is
\* positive exactly one BUY trade {qty, price = p, value = qty * p} is
\* generated, cash drops by qty * p and the position {qty, avg_cost = p} is
\* opened; otherwise nothing is generated and nothing changes.
C1_BuySizing ==
    [][LET a == ap[1]
           b == ap'[1]
       IN (LoopStep(a, b) /\ b.action = "BUY" /\ b.sym \notin DOMAIN a.positions /\ b.price > 0)
          => IF Budget100(a) >= 100 * b.price
             THEN /\ OneTradeAdded(a, b)
                  /\ LastTrade(b).timestamp = a.now_iso
                  /\ LastTrade(b).symbol = b.sym
                  /\ LastTrade(b).side = "BUY"
                  /\ LastTrade(b).price = b.price
                  /\ LastTrade(b).qty > 0
                  /\ 100 * b.price * LastTrade(b).qty <= Budget100(a)
                  /\ Budget100(a) < 100 * b.price * (LastTrade(b).qty + 1)
                  /\ LastTrade(b).value = LastTrade(b).qty * b.price
                  /\ b.cash = a.cash - LastTrade(b).qty * b.price
                  /\ b.realized_pnl = a.realized_pnl
                  /\ DOMAIN b.positions = (DOMAIN a.positions) \cup {b.sym}
                  /\ b.positions[b.sym] = [qty |-> LastTrade(b).qty, avg_cost |-> b.price]
                  /\ \A s \in DOMAIN a.positions : b.positions[s] = a.positions[s]
             ELSE /\ b.new_trades = a.new_trades
                  /\ b.cash = a.cash
                  /\ b.positions = a.positions
                  /\ b.realized_pnl = a.realized_pnl]_vars

\* The example of the specification: empty log, cash 100000, price 50.
C1_Witness ==
    /\ file = <<>>
    /\ ap[1].pc = "loop"
    /\ ap[1].n = 1
    /\ ap[1].action = "BUY"
    /\ ap[1].price = 50
    /\ ap[1].new_trades = <<[timestamp |-> 1, symbol |-> "X", side |-> "BUY",
                             qty |-> 500, price |-> 50, value |-> 25000]>>
    /\ ap[1].cash = 75000
    /\ ap[1].positions = [s \in {"X"} |-> [qty |-> 500, avg_cost |-> 50]]

\* The budget is the cash at hand, less than the fraction of the equity.
C1_WitnessCashCapped ==
    /\ ap[1].pc = "loop"
    /\ ap[1].action = "BUY"
    /\ ap[1].sym = "Y"
    /\ ap[1].new_trades = <<[timestamp |-> 1, symbol |-> "Y", side |-> "BUY",
                             qty |-> 1, price |-> 50, value |-> 50]>>
    /\ ap[1].cash = 0

\* C2: a SELL signal for a symbol with an open position {qty, avg_cost} and a
\* fetched price p > 0 adds qty * p to cash, adds (p - avg_cost) * qty to
\* realized_pnl, removes the position and generates exactly one SELL trade
\* {qty, price = p, value = qty * p}.
C2_SellCloses ==
    [][LET a == ap[1]
           b == ap'[1]
       IN (LoopStep(a, b) /\ b.action = "SELL" /\ b.sym \in DOMAIN a.positions /\ b.price > 0)
          => /\ OneTradeAdded(a, b)
             /\ LastTrade(b) = [timestamp |-> a.now_iso, symbol |-> b.sym, side |-> "SELL",
                                qty |-> a.positions[b.sym].qty, price |-> b.price,
                                value |-> a.positions[b.sym].qty * b.price]
             /\ b.cash = a.cash + a.positions[b.sym].qty * b.price
             /\ b.realized_pnl = a.realized_pnl
                    + (b.price - a.positions[b.sym].avg_cost) * a.positions[b.sym].qty
             /\ DOMAIN b.positions = (DOMAIN a.positions) \ {b.sym}
             /\ \A s \in DOMAIN b.positions : b.positions[s] = a.positions[s]]_vars

\* The example of the specification: position {500, 50} sold at 60.
C2_Witness ==
    /\ ap[1].pc = "loop"
    /\ ap[1].action = "SELL"
    /\ ap[1].sym = "X"
    /\ ap[1].price = 60
    /\ ap[1].new_trades = <<[timestamp |-> ap[1].now_iso, symbol |-> "X", side |-> "SELL",
                             qty |-> 500, price |-> 60, value |-> 30000]>>
    /\ ap[1].trades_df = <<[timestamp |-> 0, symbol |-> "X", side |-> "BUY",
                            qty |-> 500, price |-> 50, value |-> 25000]>>
    /\ ap[1].cash = 105000
    /\ ap[1].realized_pnl = 5000
    /\ "X" \notin DOMAIN ap[1].positions

\* C3: a BUY signal for a symbol with an open position, a SELL signal for a
\* symbol without one and any HOLD signal generate no trade and leave cash,
\* positions and realized_pnl as they are; a call that generated no trade
\* leaves the trade log as it is.
C3_NoOpSignals ==
    [][LET a == ap[1]
           b == ap'[1]
       IN /\ (LoopStep(a, b)
                /\ \/ b.action = "BUY" /\ b.sym \in DOMAIN a.positions
                   \/ b.action = "SELL" /\ b.sym \notin DOMAIN a.positions
                   \/ b.action = "HOLD")
             => /\ b.new_trades = a.new_trades
                /\ b.cash = a.cash
                /\ b.positions = a.positions
                /\ b.realized_pnl = a.realized_pnl
          /\ (a.pc = "loop" /\ b.pc = "idle" /\ a.new_trades = <<>>) => file' = file]_vars

\* A BUY for X was handled while X was open, and the call has generated nothing.
C3_Witness ==
    /\ ap[1].pc = "loop"
    /\ ap[1].n = 2
    /\ ap[1].action = "BUY"
    /\ ap[1].sym = "X"
    /\ "X" \in DOMAIN ReplayTrades(ap[1].trades_df, tie).positions
    /\ ap[1].positions = ReplayTrades(ap[1].trades_df, tie).positions
    /\ ap[1].new_trades = <<>>

\* C4: the trade log is append-only: after every call the log that existed
\* before the call is an unmodified prefix of the log after it, rows with an
\* unparseable timestamp included, and the rows added are the trades the call
\* generated, in generation order.
C4_AppendOnly ==
    [][(ap[1].pc = "loop" /\ ap'[1].pc = "idle") => file' = file \o ap[1].new_trades]_vars

\* The original statement of C5: replaying any permutation of a trade list
\* yields the same cash, positions and realized_pnl as replaying the list,
\* also when several trades carry the same timestamp.
C5_AnyPermutation ==
    replayed # <<>> => replayed[1] = replayed[2]

\* The timestamps of the rows, as _load_trades_df reads them, are pairwise
\* distinct (so at most one of them is unparseable).
DistinctTimestamps(rows) ==
    \A i, j \in 1..Len(rows) :
        ToDatetime(rows[i].timestamp) = ToDatetime(rows[j].timestamp) => i = j

\* C5: replaying any permutation of a trade list whose timestamps
\* are pairwise distinct yields the same cash, positions and realized_pnl.
C5_DistinctTimestamps ==
    (replayed # <<>> /\ DistinctTimestamps(trades_in)) => replayed[1] = replayed[2]

\* A BUY at time 1 and a SELL at time 2, handed over in the opposite order.
C5_Witness ==
    /\ replayed # <<>>
    /\ DistinctTimestamps(trades_in)
    /\ Len(trades_in) = 3
    /\ replayed[3] # trades_in
    /\ trades_in[1].timestamp = 2
    /\ trades_in[2].timestamp = 1
    /\ replayed[1] = replayed[2]
    /\ replayed[1].realized_pnl = 20

\* C6: two interleaved invocations of apply on the same log both load the
\* same prior log, both generate trades against it and both append their
\* trades: the log holds the BUY behind every open position that a snapshot
\* returned by either invocation shows.
C6_BothAppended ==
    \A p \in ProcSet :
        \A s \in DOMAIN ap[p].snapshot.positions :
            \E i \in 1..Len(file) : file[i].symbol = s /\ file[i].side = "BUY"

\* The log an invocation writes is the frame it loaded followed by its own
\* new trades.
StaleSave(a, f) == f = a.trades_df \o a.new_trades

\* Each invocation sizes its trades against the log it loaded, whatever the
\* other one has persisted since, and each that generated a trade writes back
\* the frame it loaded plus its own trades.
InterleavingIsStale ==
    [][\A p \in ProcSet :
          /\ ap[p].pc = "loop" =>
                ap[p].approx_equity = ApproxEquity(ReplayTrades(ap[p].trades_df, tie))
          /\ (ap[p].pc = "loop" /\ ap'[p].pc = "idle" /\ ap[p].new_trades # <<>>)
                => StaleSave(ap[p], file')]_vars

BuyAt50(sym) == <<[symbol |-> sym, signal |-> "BUY", price |-> 50]>>

\* The logs the two serial orders of "BUY X" and "BUY Y" (price 50) can leave.
SerialLogsXY ==
    {RunCall(RunCall(<<>>, BuyAt50("X"), t1, "stable"), BuyAt50("Y"), t2, "stable") :
        t1 \in 1..MaxClock, t2 \in 1..MaxClock}
    \cup
    {RunCall(RunCall(<<>>, BuyAt50("Y"), t1, "stable"), BuyAt50("X"), t2, "stable") :
        t1 \in 1..MaxClock, t2 \in 1..MaxClock}

\* Both invocations loaded the empty log, one bought X and the other Y, both
\* returned a snapshot holding their purchase, and the log holds one trade:
\* it is the result of neither serial order.
LostUpdate ==
    /\ ap[1].pc = "idle" /\ ap[2].pc = "idle"
    /\ Len(history) = 2
    /\ DOMAIN ap[1].snapshot.positions = {"X"}
    /\ DOMAIN ap[2].snapshot.positions = {"Y"}
    /\ ap[1].snapshot.cash = 75000
    /\ ap[2].snapshot.cash = 75000
    /\ Len(file) = 1
    /\ file \notin SerialLogsXY

RECURSIVE NoBuyOverOpen(_, _)
NoBuyOverOpen(open, rows) ==
    IF rows = <<>> THEN TRUE
    ELSE LET r == Head(rows)
         IN IF r.side = "BUY"
            THEN r.symbol \notin open /\ NoBuyOverOpen(open \cup {r.symbol}, Tail(rows))
            ELSE NoBuyOverOpen(open \ {r.symbol}, Tail(rows))

\* C7: in every trade log produced by apply calls from an empty log, replay
\* never processes a BUY for a symbol that has an open position at that point.
C7_OneOpenLot ==
    NoBuyOverOpen({}, SortValues(LoadTradesDf(file), tie))

\* cash, realized_pnl and the open positions (symbol, qty, avg_cost) of a snapshot
LedgerPart(snapshot) ==
    [cash |-> snapshot.cash,
     realized_pnl |-> snapshot.realized_pnl,
     positions |-> [s \in DOMAIN snapshot.positions |->
                      [qty |-> snapshot.positions[s].qty,
                       avg_cost |-> snapshot.positions[s].avg_cost]]]

\* C8: two successive snapshot computations over the same trade log, with no
\* apply in between, return the same cash, realized_pnl and open positions
\* (symbol, qty, avg_cost), whatever prices were fetched; the two snapshots
\* differ at all only if a price used for a position differs.
C8_SnapshotIdempotent ==
    Len(snap) = 2 =>
        /\ LedgerPart(snap[1]) = LedgerPart(snap[2])
        /\ (\A s \in DOMAIN snap[1].positions :
                snap[1].positions[s].last_price = snap[2].positions[s].last_price)
              => snap[1] = snap[2]

\* Two successive snapshots that priced an open position differently.
C8_Witness ==
    /\ Len(snap) = 2
    /\ "X" \in DOMAIN snap[1].positions
    /\ snap[1].positions["X"].last_price = 50
    /\ snap[2].positions["X"].last_price = 60
    /\ snap[1].equity # snap[2].equity
    /\ snap[1].cash = snap[2].cash

EffectiveBuy == IF buy_thr = NoThreshold THEN BUY_THR ELSE buy_thr
EffectiveSell == IF sell_thr = NoThreshold THEN SELL_THR ELSE sell_thr

\* C9: the rules are evaluated in this order: article_count = 0 gives HOLD;
\* final_score >= buy threshold gives BUY; final_score <= sell threshold gives
\* SELL; anything else is HOLD.  Both boundaries are inclusive.
C9_SignalRule ==
    signal_info # NoSignal =>
        /\ summary.article_count = 0 => signal_info.signal = "HOLD"
        /\ (summary.article_count # 0 /\ summary.final_score >= EffectiveBuy)
              => signal_info.signal = "BUY"
        /\ (summary.article_count # 0 /\ summary.final_score < EffectiveBuy
              /\ summary.final_score <= EffectiveSell)
              => signal_info.signal = "SELL"
        /\ (summary.article_count # 0 /\ summary.final_score < EffectiveBuy
              /\ summary.final_score > EffectiveSell)
              => signal_info.signal = "HOLD"

\* A score equal to the default buy threshold gives BUY.
C9_Witness ==
    /\ signal_info # NoSignal
    /\ buy_thr = NoThreshold
    /\ summary.article_count = 5
    /\ summary.final_score = BUY_THR
    /\ signal_info.signal = "BUY"

\* A score equal to the sell threshold gives SELL.
C9_WitnessSell ==
    /\ signal_info # NoSignal
    /\ sell_thr = NoThreshold /\ buy_thr = NoThreshold
    /\ summary.article_count = 5
    /\ summary.final_score = SELL_THR
    /\ signal_info.signal = "SELL"

\* C10: confidence is low exactly when article_count = 0; a BUY is high when
\* final_score >= buy threshold + 0.15 and medium otherwise; a SELL is high
\* when final_score <= sell threshold - 0.15 and medium otherwise; a HOLD with
\* articles is medium.
C10_Confidence ==
    signal_info # NoSignal =>
        /\ (signal_info.confidence = "low") <=> (summary.article_count = 0)
        /\ (summary.article_count # 0 /\ signal_info.signal = "BUY") =>
              (signal_info.confidence =
                  IF summary.final_score >= EffectiveBuy + CONF_MARGIN THEN "high" ELSE "medium")
        /\ (summary.article_count # 0 /\ signal_info.signal = "SELL") =>
              (signal_info.confidence =
                  IF summary.final_score <= EffectiveSell - CONF_MARGIN THEN "high" ELSE "medium")
        /\ (summary.article_count # 0 /\ signal_info.signal = "HOLD") =>
              signal_info.confidence = "medium"

\* The example of the specification: score 0.0, 5 articles, default thresholds.
C10_Witness ==
    /\ buy_thr = NoThreshold /\ sell_thr = NoThreshold
    /\ summary = [final_score |-> 0, article_count |-> 5]
    /\ signal_info = [signal |-> "HOLD", confidence |-> "medium"]

\* The spellings of the two labels, whatever the case of the letters.
PositiveSpellings == {"positive", "Positive", "POSITIVE"}
NegativeSpellings == {"negative", "Negative", "NEGATIVE"}

\* The records of rs whose label is in labels.
CountLabelled(rs, labels) ==
    Cardinality({i \in 1..Len(rs) : rs[i].label \in labels})

\* The records of rs whose label is outside labels.
CountOthers(rs, labels) ==
    Cardinality({i \in 1..Len(rs) : rs[i].label \notin labels})

\* C11: for every non-empty list of article records the three ratios are
\* non-negative fractions of the list length that sum to 1, article_count is
\* the list length, and every record whose label is neither "positive" nor
\* "negative" (case-insensitively), a record without label included, counts
\* as neutral.
C11_Ratios ==
    (agg_out # NotAggregated /\ articles # <<>>) =>
        LET n == Len(articles)
        IN /\ agg_out.article_count = n
           /\ agg_out.bullish_ratio = Ratio(CountLabelled(articles, PositiveSpellings), n)
           /\ agg_out.bearish_ratio = Ratio(CountLabelled(articles, NegativeSpellings), n)
           /\ agg_out.neutral_ratio = Ratio(CountOthers(articles, PositiveSpellings \cup NegativeSpellings), n)
           /\ agg_out.bullish_ratio.num >= 0
           /\ agg_out.bearish_ratio.num >= 0
           /\ agg_out.neutral_ratio.num >= 0
           /\ agg_out.bullish_ratio.num + agg_out.bearish_ratio.num
                 + agg_out.neutral_ratio.num = n

\* Three records: no label, "Negative", "neutral": 2/3 neutral, 1/3 bearish.
C11_Witness ==
    /\ agg_out # NotAggregated
    /\ Len(articles) = 3
    /\ articles[1].label = ""
    /\ articles[2].label = "Negative"
    /\ articles[3].label = "neutral"
    /\ agg_out.neutral_ratio = Ratio(2, 3)
    /\ agg_out.bearish_ratio = Ratio(1, 3)
    /\ agg_out.bullish_ratio = Ratio(0, 3)

RECURSIVE SumOfScores(_)
SumOfScores(rs) == IF rs = <<>> THEN 0 ELSE Head(rs).score + SumOfScores(Tail(rs))

RECURSIVE SumOfMagnitudes(_)
SumOfMagnitudes(rs) == IF rs = <<>> THEN 0 ELSE Abs(Head(rs).score) + SumOfMagnitudes(Tail(rs))

LeastScore(rs) == CHOOSE x \in {rs[i].score : i \in 1..Len(rs)} :
                      \A i \in 1..Len(rs) : x <= rs[i].score
GreatestScore(rs) == CHOOSE x \in {rs[i].score : i \in 1..Len(rs)} :
                         \A i \in 1..Len(rs) : x >= rs[i].score

\* The original statement of C12: for every non-empty list the final_score
\* lies within [minimum article score, maximum article score].
C12_WithinMinMax ==
    (agg_out # NotAggregated /\ articles # <<>>) =>
        /\ LeastScore(articles) <= agg_out.final_score
        /\ agg_out.final_score <= GreatestScore(articles)

\* The rounding allowance: one step of the float format at the magnitude of
\* the sum of the absolute scores.
RoundingStep(rs) == Ulp(SumOfMagnitudes(rs))

\* C12: for every non-empty list the final_score is the unweighted arithmetic
\* mean of the scores up to floating-point rounding: it differs from the
\* exact mean by less than one rounding step, and so lies within
\* [minimum score, maximum score] widened by that step.
C12_MeanUpToRounding ==
    (agg_out # NotAggregated /\ articles # <<>>) =>
        LET n == Len(articles)
        IN /\ Abs(n * agg_out.final_score - SumOfScores(articles)) < n * RoundingStep(articles)
           /\ LeastScore(articles) - RoundingStep(articles) < agg_out.final_score
           /\ agg_out.final_score < GreatestScore(articles) + RoundingStep(articles)

\* Three equal scores whose running sum is rounded: the mean comes out one
\* step below the score.
C12_Witness ==
    /\ agg_out # NotAggregated
    /\ Len(articles) = 3
    /\ \A i \in 1..3 : articles[i].score = 14
    /\ agg_out.final_score = 13
    /\ agg_out.final_score < LeastScore(articles)

\* No article of arts has a text to classify.
NothingToClassify(arts) == \A i \in 1..Len(arts) : arts[i].blank

\* C13: aggregate_article_sentiments on an empty list returns the "no data"
\* sentinel, and whenever a symbol has no articles or no classified result
\* reaches the aggregator, the signal for the symbol is HOLD with confidence
\* low.
C13_NoData ==
    /\ (agg_out # NotAggregated /\ articles = <<>>) => agg_out = NoSummary
    /\ (analysis # NoAnalysis /\ NothingToClassify(articles)) =>
          (analysis.signal = "HOLD" /\ analysis.confidence = "low")

\* Two articles, both without text: nothing reaches the aggregator.
C13_Witness ==
    /\ Len(articles) = 2
    /\ NothingToClassify(articles)
    /\ analysis = HoldLow(2)

\* No articles at all: the sentinel and the HOLD/low result.
C13_WitnessEmpty ==
    /\ articles = <<>>
    /\ agg_out = NoSummary
    /\ analysis = HoldLow(0)

\* C14: in a snapshot, a position for which the price source returned a
\* price <= 0 gets last_price = avg_cost, unrealized_pnl = 0 and
\* market_value = qty * avg_cost; the snapshot is still returned and every
\* other position is priced with the price returned for it.
C14_PriceFallback ==
    snap # <<>> =>
        LET s == snap[Len(snap)]
        IN /\ DOMAIN s.positions = DOMAIN quoted
           /\ \A sym \in DOMAIN quoted :
                LET pos == s.positions[sym]
                IN IF quoted[sym] <= 0
                   THEN /\ pos.last_price = pos.avg_cost
                        /\ pos.unrealized_pnl = 0
                        /\ pos.market_value = pos.qty * pos.avg_cost
                   ELSE /\ pos.last_price = quoted[sym]
                        /\ pos.market_value = pos.qty * quoted[sym]
                        /\ pos.unrealized_pnl = pos.qty * (quoted[sym] - pos.avg_cost)

\* X and Y are open at cost 50; the source returns 0 for X and 60 for Y.
C14_Witness ==
    /\ snap # <<>>
    /\ DOMAIN quoted = {"X", "Y"}
    /\ quoted["X"] = 0
    /\ quoted["Y"] = 60
    /\ snap[Len(snap)].positions["X"].last_price = 50
    /\ snap[Len(snap)].positions["X"].unrealized_pnl = 0
    /\ snap[Len(snap)].positions["Y"].last_price = 60
    /\ snap[Len(snap)].unrealized_pnl = snap[Len(snap)].positions["Y"].unrealized_pnl
    /\ snap[Len(snap)].unrealized_pnl > 0

Unparseable(r) == r.timestamp < 0
Parseable(r) == r.timestamp >= 0

\* The original statement of C15: rows with an unparseable timestamp take a
\* fixed place in the replay order, the place the specification names: they
\* are treated as earliest, replayed before every row with a timestamp.
C15_TreatedAsEarliest ==
    replayed # <<>> =>
        replayed[1] = ReplayRows(InitialLedger,
                                 LoadTradesDf(SelectSeq(trades_in, Unparseable))
                                    \o ArgSort(SelectSeq(trades_in, Parseable), tie))

\* C15: a trade log with unparseable timestamps is replayed without error and
\* such rows take a fixed place in the replay order: after every row with a
\* parseable timestamp, in their file order; replaying the same log again
\* yields the same cash, positions and realized_pnl.
C15_TreatedAsLatest ==
    replayed # <<>> =>
        /\ replayed[1] = ReplayRows(InitialLedger,
                                    ArgSort(SelectSeq(trades_in, Parseable), tie)
                                       \o LoadTradesDf(SelectSeq(trades_in, Unparseable)))
        /\ replayed[1] = ReplayTrades(trades_in, tie)

\* The log holds a BUY of X with an unparseable timestamp and then a SELL of
\* X at time 1: the SELL is replayed first (and ignored), the BUY last, and
\* the position stays open.
C15_Witness ==
    /\ replayed # <<>>
    /\ Len(trades_in) = 2
    /\ trades_in[1].timestamp = BadText /\ trades_in[1].side = "BUY"
    /\ trades_in[2].timestamp = 1 /\ trades_in[2].side = "SELL"
    /\ DOMAIN replayed[1].positions = {"X"}
    /\ replayed[1].realized_pnl = 0
    /\ replayed[1].cash = INITIAL_CAPITAL - trades_in[1].value

\* C16: a missing news credential halts only the news collaborator, not the
\* run: a run that has stopped has produced one signal per watchlist symbol
\* and ended normally.
C16_RunSurvivesConfigError ==
    run.pc \in {"done", "raised"} =>
        (run.pc = "done" /\ Len(run.all_signals) = Len(WatchList))

\* With the credential the run ends normally, one signal per symbol.
RunCompletes ==
    /\ news_key
    /\ run.pc = "done"
    /\ Len(run.all_signals) = Len(WatchList)
    /\ run.all_signals[1].info.signal = "BUY"
    /\ run.all_signals[2].info = HoldLow(0)

\* The rows of df in ascending timestamp order, equal timestamps in the order
\* of df, rows without timestamp last.
InLogOrder(df) == ArgSort(SelectSeq(df, NotNaT), "stable") \o SelectSeq(df, IsNaT)

\* C17: replay processes the trades in ascending timestamp order and trades
\* with equal timestamps in their log order; the trades of one apply call,
\* which share one timestamp, are replayed in the order they were appended.
C17_StableReplayOrder ==
    SortValues(LoadTradesDf(file), tie) = InLogOrder(LoadTradesDf(file))

\* One call bought X at 50 and sold it at 60; replayed in the opposite order
\* the SELL is ignored and the snapshot the call returns shows X still open.
ReorderedCall ==
    /\ Len(file) = 2
    /\ file[1].side = "BUY" /\ file[1].symbol = "X" /\ file[1].price = 50
    /\ file[2].side = "SELL" /\ file[2].symbol = "X" /\ file[2].price = 60
    /\ file[1].timestamp = file[2].timestamp
    /\ ap[1].pc = "idle"
    /\ DOMAIN ap[1].snapshot.positions = {"X"}
    /\ ap[1].snapshot.cash = 75000
    /\ ap[1].snapshot.realized_pnl = 0

\* The rows of trades_in in the order replay processes them.
ReplayOrder == SortValues(LoadTradesDf(trades_in), tie)

\* The ledger once replay has processed the first k rows of order.
LedgerAfter(order, k) == ReplayRows(InitialLedger, SubSeq(order, 1, k))

\* Every position but the one of sym is the same in the two ledgers.
SameElsewhere(a, b, sym) ==
    /\ DOMAIN a.positions \ {sym} = DOMAIN b.positions \ {sym}
    /\ \A s \in DOMAIN a.positions \ {sym} : a.positions[s] = b.positions[s]

\* C18: during replay a BUY trade always subtracts qty*price from cash and
\* sets the symbol's position to {qty, avg_cost = price}, also when the
\* symbol already has an open position: the earlier lot is discarded, the
\* cash spent on it stays spent, realized_pnl is untouched.
C18_ReplayBuyOverwrites ==
    replayed # <<>> =>
      LET order == ReplayOrder
      IN
        /\ replayed[1] = LedgerAfter(order, Len(order))
        /\ \A k \in 1..Len(order) :
              order[k].side = "BUY" =>
                 LET row == order[k]
                     before == LedgerAfter(order, k - 1)
                     after == LedgerAfter(order, k)
                 IN /\ after.cash = before.cash - row.qty * row.price
                    /\ row.symbol \in DOMAIN after.positions
                    /\ after.positions[row.symbol] = [qty |-> row.qty, avg_cost |-> row.price]
                    /\ after.realized_pnl = before.realized_pnl
                    /\ SameElsewhere(before, after, row.symbol)

\* BUY X 1 @ 50 at time 1, then BUY X 2 @ 60 at time 2: the position is
\* {2, 60} and the cash is down by 50 + 120.
C18_Witness ==
    /\ replayed # <<>>
    /\ Len(trades_in) = 2
    /\ trades_in[1] = Trade(1, "X", "BUY", 1, 50)
    /\ trades_in[2] = Trade(2, "X", "BUY", 2, 60)
    /\ replayed[1].positions["X"] = [qty |-> 2, avg_cost |-> 60]
    /\ replayed[1].cash = INITIAL_CAPITAL - 170
    /\ replayed[1].realized_pnl = 0

\* C19: during replay a SELL trade for a symbol with an open position adds
\* trade.qty*price to cash, adds (price - avg_cost)*trade.qty to realized_pnl
\* and removes the position entirely, whatever the trade's qty is relative to
\* the quantity held; a SELL for a symbol without open position changes
\* nothing.
C19_ReplaySell ==
    replayed # <<>> =>
      LET order == ReplayOrder
      IN
        /\ replayed[1] = LedgerAfter(order, Len(order))
        /\ \A k \in 1..Len(order) :
              order[k].side = "SELL" =>
                 LET row == order[k]
                     before == LedgerAfter(order, k - 1)
                     after == LedgerAfter(order, k)
                 IN IF row.symbol \in DOMAIN before.positions
                    THEN /\ after.cash = before.cash + row.qty * row.price
                         /\ after.realized_pnl = before.realized_pnl
                               + (row.price - before.positions[row.symbol].avg_cost) * row.qty
                         /\ row.symbol \notin DOMAIN after.positions
                         /\ SameElsewhere(before, after, row.symbol)
                    ELSE after = before

\* BUY X 1 @ 50 at time 1, SELL X 2 @ 60 at time 2, then a second SELL with
\* an unparseable timestamp: the first SELL closes the position with the
\* trade's quantity 2, the second finds no position and changes nothing.
C19_Witness ==
    /\ replayed # <<>>
    /\ Len(trades_in) = 3
    /\ trades_in[1] = Trade(1, "X", "BUY", 1, 50)
    /\ trades_in[2] = Trade(2, "X", "SELL", 2, 60)
    /\ trades_in[3].side = "SELL" /\ trades_in[3].timestamp = BadText
    /\ replayed[1].positions = EmptyPositions
    /\ replayed[1].cash = INITIAL_CAPITAL - 50 + 120
    /\ replayed[1].realized_pnl = 20

\* C20: when the price fetched for a BUY (no open position) or a SELL (open
\* position) is <= 0, the signal generates no trade, leaves cash, positions
\* and realized_pnl unchanged and raises nothing: the loop goes on to the
\* next signal with its locals as they were.
C20_SkipsBadPrice ==
    [][LET a == ap[1]
           b == ap'[1]
       IN (a.pc = "loop" /\ b.n = a.n + 1
             /\ \/ b.action = "BUY" /\ b.sym \notin DOMAIN a.positions
                \/ b.action = "SELL" /\ b.sym \in DOMAIN a.positions
             /\ b.price <= 0)
          => /\ b.pc = "loop"
             /\ b.new_trades = a.new_trades
             /\ b.cash = a.cash
             /\ b.positions = a.positions
             /\ b.realized_pnl = a.realized_pnl
             /\ b.approx_equity = a.approx_equity
             /\ b.trades_df = a.trades_df
             /\ b.now_iso = a.now_iso]_vars

\* The call loaded an open X position; its first signal, SELL X, got the
\* price 0 and was skipped; the loop can take the next signal.
C20_Witness ==
    /\ ap[1].pc = "loop"
    /\ ap[1].n = 1
    /\ ap[1].action = "SELL"
    /\ ap[1].sym = "X"
    /\ ap[1].price = 0
    /\ "X" \in DOMAIN ap[1].positions
    /\ ap[1].new_trades = <<>>
    /\ ap[1].cash = ReplayTrades(ap[1].trades_df, tie).cash
    /\ ENABLED Step(1)

\* Replaying rows from the ledger st, every SELL finds its symbol open and
\* sells exactly the quantity held.
RECURSIVE SellsCloseWholeLots(_, _)
SellsCloseWholeLots(st, rows) ==
    IF rows = <<>> THEN TRUE
    ELSE LET row == Head(rows)
         IN /\ row.side = "SELL" =>
                  /\ row.symbol \in DOMAIN st.positions
                  /\ row.qty = st.positions[row.symbol].qty
            /\ SellsCloseWholeLots(ReplayRow(st, row), Tail(rows))

\* C21: partial sells never occur: in the replay of any log produced only by
\* apply, each SELL closes exactly the quantity held for its symbol at that
\* point, the quantity the matching BUY opened.
C21_NoPartialSells ==
    SellsCloseWholeLots(InitialLedger, SortValues(LoadTradesDf(file), tie))

\* When apply appends a SELL trade, its qty is the whole quantity the call
\* holds in memory for the symbol at that moment.
SellsWholeLotInMemory ==
    [][LET a == ap[1]
           b == ap'[1]
       IN (LoopStep(a, b) /\ Len(b.new_trades) = Len(a.new_trades) + 1
             /\ LastTrade(b).side = "SELL")
          => /\ LastTrade(b).symbol \in DOMAIN a.positions
             /\ LastTrade(b).qty = a.positions[LastTrade(b).symbol].qty]_vars

\* With equal timestamps replayed in log order no SELL is partial.
NoPartialSellsInLogOrder ==
    tie = "stable" => C21_NoPartialSells

\* What the apply loop holds in memory: cash, realized_pnl and the open
\* positions.
InMemoryLedger(a) ==
    [cash |-> a.cash, realized_pnl |-> a.realized_pnl, positions |-> a.positions]

\* The call saves, computes the snapshot and returns.
Returns(a, b) == a.pc = "loop" /\ b.pc = "idle"

\* C22: the snapshot apply returns has the cash and realized_pnl the loop
\* computed in memory after the last signal, and its positions are exactly the
\* in-memory open positions (same symbols, qty and avg_cost), for every signal
\* list, including lists that name the same symbol more than once.
C22_SnapshotMatchesMemory ==
    [][Returns(ap[1], ap'[1])
          => LedgerPart(ap'[1].snapshot) = InMemoryLedger(ap[1])]_vars

\* With equal timestamps replayed in log order the returned snapshot is the
\* in-memory ledger.
SnapshotMatchesMemoryInLogOrder ==
    [][(tie = "stable" /\ Returns(ap[1], ap'[1]))
          => LedgerPart(ap'[1].snapshot) = InMemoryLedger(ap[1])]_vars

\* The four figures of a history row, or of a snapshot.
Figures(r) ==
    [equity |-> r.equity, cash |-> r.cash, realized_pnl |-> r.realized_pnl,
     unrealized_pnl |-> r.unrealized_pnl]

\* C23: every apply call, whether or not it generated a trade, appends exactly
\* one row to the equity-history log, in the step that persists the new trades
\* and computes the snapshot; the row's equity, cash, realized_pnl and
\* unrealized_pnl are those of the snapshot the call returns, earlier rows are
\* unchanged, and no other step of the call touches the history.
C23_OneHistoryRowPerCall ==
    [][IF Returns(ap[1], ap'[1])
       THEN /\ Len(history') = Len(history) + 1
            /\ SubSeq(history', 1, Len(history)) = history
            /\ Figures(history'[Len(history')]) = Figures(ap'[1].snapshot)
            /\ file' = IF ap[1].new_trades # <<>>
                       THEN ap[1].trades_df \o ap[1].new_trades
                       ELSE file
       ELSE history' = history]_vars

\* Two calls have returned: the first generated no trade, the second bought X
\* at 50 and saw it quoted at 60; each left its own row.
C23_Witness ==
    /\ ap[1].pc = "idle"
    /\ Len(history) = 2
    /\ Len(file) = 1
    /\ Figures(history[1]) = [equity |-> 100000, cash |-> 100000,
                              realized_pnl |-> 0, unrealized_pnl |-> 0]
    /\ Figures(history[2]) = [equity |-> 105000, cash |-> 75000,
                              realized_pnl |-> 0, unrealized_pnl |-> 5000]
    /\ Figures(ap[1].snapshot) = Figures(history[2])

Aggregated == agg_out # NotAggregated /\ ~agg_out.none

DefaultSignal == GenerateTradingSignal(agg_out, NoThreshold, NoThreshold).signal

\* C24: sentiment_view compares final_score with the configured default
\* thresholds by strict inequalities (> buy: bullish, < sell: bearish,
\* otherwise mixed/neutral), whatever thresholds the signal generator is given;
\* so a final_score equal to the default buy (sell) threshold has the view
\* mixed/neutral while the signal under default thresholds is BUY (SELL).
C24_ViewStrictDefaults ==
    Aggregated =>
        /\ agg_out.sentiment_view = "bullish" <=> agg_out.final_score > BUY_THR
        /\ agg_out.sentiment_view = "bearish" <=> agg_out.final_score < SELL_THR
        /\ agg_out.sentiment_view = "mixed/neutral"
              <=> (agg_out.final_score >= SELL_THR /\ agg_out.final_score <= BUY_THR)
        /\ agg_out.final_score = BUY_THR =>
              /\ agg_out.sentiment_view = "mixed/neutral"
              /\ DefaultSignal = "BUY"
        /\ agg_out.final_score = SELL_THR =>
              /\ agg_out.sentiment_view = "mixed/neutral"
              /\ DefaultSignal = "SELL"
        /\ (signal_info # NoSignal /\ buy_thr = NoThreshold /\ sell_thr = NoThreshold)
              => signal_info.signal = DefaultSignal

\* A score equal to the default buy threshold, signalled under the defaults.
C24_Witness ==
    /\ Aggregated
    /\ agg_out.final_score = BUY_THR
    /\ agg_out.sentiment_view = "mixed/neutral"
    /\ buy_thr = NoThreshold /\ sell_thr = NoThreshold
    /\ signal_info # NoSignal /\ signal_info.signal = "BUY"

\* A score equal to the default sell threshold, signalled under the defaults.
C24_WitnessSell ==
    /\ Aggregated
    /\ agg_out.final_score = SELL_THR
    /\ agg_out.sentiment_view = "mixed/neutral"
    /\ buy_thr = NoThreshold /\ sell_thr = NoThreshold
    /\ signal_info # NoSignal /\ signal_info.signal = "SELL"

\* The caller's buy threshold is 0.10: a score of 0.03 is bullish by the
\* defaults while the signal is HOLD.
C24_WitnessOtherThresholds ==
    /\ Aggregated
    /\ agg_out.final_score = 3
    /\ agg_out.sentiment_view = "bullish"
    /\ buy_thr = 10
    /\ signal_info # NoSignal /\ signal_info.signal = "HOLD"

\* C25: cash is never negative: starting from an empty trade log, the cash an
\* apply call holds in memory is >= 0 after every signal, and so is the cash
\* of the log the calls leave (as replayed, and as reported by the snapshot
\* and the history rows).
C25_CashNeverNegative ==
    /\ ap[1].cash >= 0
    /\ ReplayTrades(file, tie).cash >= 0
    /\ ap[1].snapshot.cash >= 0
    /\ \A i \in 1..Len(history) : history[i].cash >= 0

\* The cash a call holds in memory is never negative while the cash it
\* started from was not.
CashInMemoryNonNegative == ap[1].cash >= 0

\* With equal timestamps replayed in log order cash is never negative.
CashNeverNegativeInLogOrder == tie = "stable" => C25_CashNeverNegative

\* C26: value conservation: the replay of every log produced by apply calls
\* from an empty log has cash + sum over the open positions of qty * avg_cost
\* = INITIAL_CAPITAL + realized_pnl, and every snapshot has
\* equity - unrealized_pnl = INITIAL_CAPITAL + realized_pnl.
C26_ValueConserved ==
    LET led == ReplayTrades(file, tie)
        snapshot == ap[1].snapshot
    IN /\ ApproxEquity(led) = INITIAL_CAPITAL + led.realized_pnl
       /\ snapshot # NoSnapshot =>
             snapshot.equity - snapshot.unrealized_pnl
                = INITIAL_CAPITAL + snapshot.realized_pnl

\* With equal timestamps replayed in log order value is conserved.
ValueConservedInLogOrder == tie = "stable" => C26_ValueConserved

====
